---- MODULE Spec2Model ----
(***************************************************************************)
(* Model of mypy/codegraph.py: the code-graph recorder that mypy's hooks   *)
(* call into.  Python strings (dotted names, path strings) are sequences   *)
(* of one-character strings, so that splitting a name at its last dot and  *)
(* parsing a path string into components are computed, not assumed.       *)
(* A pathlib.Path is the sequence of its components below the root "/";    *)
(* every path given to the recorder here is absolute, and the modelled     *)
(* file system holds no symbolic links, so Path.resolve() only collapses   *)
(* ".." components.  What is written is text: the characters json.dump     *)
(* produces, chunk by chunk, which pass through the two buffers of the     *)
(* output handle before they reach a file.                                 *)
(***************************************************************************)
EXTENDS Naturals, Sequences, FiniteSets, Bags, TLC

VARIABLES
    _output,        \* <<>> for None, else <<h>>: the handle on destination h.dest
    _filter_paths,  \* list of resolved filter roots
    _module_map,    \* dotted module name -> pathlib.Path(f.path)
    streams,        \* destination -> the text it holds
    garbage,        \* bag of the dropped handles that hold text which has not reached
                    \* their file: two handles given the same text are two handles
    refcounted,     \* the interpreter finalises an object when its last reference goes
    blksize,        \* the block size of the file system, open()'s buffer size
    opens,          \* file -> how often enable() has opened it (2: more than once)
    running,        \* the process has not exited
    script,         \* the calls the host pipeline is scripted to make (<<>>: free)
    pc              \* how many calls of the script have been made

vars == <<_output, _filter_paths, _module_map, streams, garbage, refcounted, blksize, opens,
         running, script, pc>>

(***************************************************************************)
(* Bounds of the model.                                                    *)
(***************************************************************************)
\* hook calls the host makes while it calls freely
MaxCalls == 2
\* filter roots passed to enable() by a path-filter script
MaxRoots == 2
\* components of the path probed by a path-filter script
MaxDepth == 3

(***************************************************************************)
(* Strings and paths.                                                      *)
(***************************************************************************)
None == <<>>

least(S) == CHOOSE i \in S : \A j \in S : i <= j
greatest(S) == CHOOSE i \in S : \A j \in S : j <= i

\* index of the last occurrence of character c in s up to i, 0 when there
\* is none
rfind(s, c, i) ==
    LET at == { k \in 1 .. i : s[k] = c }
    IN  IF at = {} THEN 0 ELSE greatest(at)

\* index of the first occurrence of character c in s from i on, 0 when none
find(s, c, i) ==
    LET at == { k \in i .. Len(s) : s[k] = c }
    IN  IF at = {} THEN 0 ELSE least(at)

\* sep.join(parts), half by half
RECURSIVE join(_, _)
join(parts, sep) ==
    IF Len(parts) = 0 THEN <<>>
    ELSE IF Len(parts) = 1 THEN parts[1]
    ELSE join(SubSeq(parts, 1, Len(parts) \div 2), sep) \o sep
         \o join(SubSeq(parts, Len(parts) \div 2 + 1, Len(parts)), sep)

\* s.rsplit(".", 1)[0] with a mutation: splits at the first dot
split1_0(s) ==
    LET i == find(s, ".", 1)
    IN  IF i = 0 THEN s ELSE SubSeq(s, 1, i - 1)

\* s.rsplit(".", 1)[0]
rsplit1_0(s) ==
    LET i == rfind(s, ".", Len(s))
    IN  IF i = 0 THEN s ELSE SubSeq(s, 1, i - 1)

\* s.split(sep): the pieces of s between occurrences of the character sep
RECURSIVE split(_, _)
split(s, sep) ==
    LET i == find(s, sep, 1)
    IN  IF i = 0 THEN <<s>>
        ELSE <<SubSeq(s, 1, i - 1)>> \o split(SubSeq(s, i + 1, Len(s)), sep)

IsPart(c) == c # <<>> /\ c # <<".">>

\* pathlib.Path(s) for an absolute path string: its components, with empty
\* components and "." components dropped (".." is kept)
Path(s) == SelectSeq(split(s, "/"), IsPart)

\* Path.resolve() of an absolute path on a file system without symlinks
RECURSIVE resolve(_)
resolve(p) ==
    IF p = <<>> THEN <<>>
    ELSE LET init == resolve(SubSeq(p, 1, Len(p) - 1))
             last == p[Len(p)]
         IN  IF last = <<".", ".">>
             THEN (IF init = <<>> THEN <<>> ELSE SubSeq(init, 1, Len(init) - 1))
             ELSE Append(init, last)

\* PurePath.parents: every proper ancestor
parents(p) == { SubSeq(p, 1, k) : k \in 0 .. (Len(p) - 1) }

\* str(path): the components joined below the root
str(p) ==
    IF p = <<>> THEN <<"/">>
    ELSE join([i \in DOMAIN p |-> <<"/">> \o p[i]], <<>>)

\* is_relative_to with a mutation: string prefix instead of component prefix
startswith(p, other) ==
    /\ Len(str(other)) <= Len(str(p))
    /\ SubSeq(str(p), 1, Len(str(other))) = str(other)

\* PurePath.is_relative_to(other)
is_relative_to(p, other) == other = p \/ other \in parents(p)

\* _path_filter(p)
_path_filter(p) ==
    \E i \in DOMAIN _filter_paths : is_relative_to(resolve(p), _filter_paths[i])

(***************************************************************************)
(* JSON lines.  A dictionary is the sequence of its <<key, value>> pairs   *)
(* in insertion order; keys are written as literals and values are         *)
(* character sequences.                                                    *)
(***************************************************************************)
\* the characters of the string literals the recorder writes
Chars(s) ==
    CASE s = "type" -> <<"t", "y", "p", "e">>
      [] s = "file" -> <<"f", "i", "l", "e">>
      [] s = "module" -> <<"m", "o", "d", "u", "l", "e">>
      [] s = "import" -> <<"i", "m", "p", "o", "r", "t">>
      [] s = "importer" -> <<"i", "m", "p", "o", "r", "t", "e", "r">>
      [] s = "importee" -> <<"i", "m", "p", "o", "r", "t", "e", "e">>
      [] s = "invalidate" -> <<"i", "n", "v", "a", "l", "i", "d", "a", "t", "e">>
      [] s = "fullname" -> <<"f", "u", "l", "l", "n", "a", "m", "e">>
      [] s = "class_def" -> <<"c", "l", "a", "s", "s", "_", "d", "e", "f">>
      [] s = "class_ref" -> <<"c", "l", "a", "s", "s", "_", "r", "e", "f">>
      [] s = "src" -> <<"s", "r", "c">>
      [] s = "dst" -> <<"d", "s", "t">>
      [] s = "kind" -> <<"k", "i", "n", "d">>
      [] s = "function_def" -> <<"f", "u", "n", "c", "t", "i", "o", "n", "_", "d", "e", "f">>
      [] s = "call" -> <<"c", "a", "l", "l">>
      [] s = "caller" -> <<"c", "a", "l", "l", "e", "r">>
      [] s = "callee" -> <<"c", "a", "l", "l", "e", "e">>
      [] s = "INHERITANCE" -> <<"I", "N", "H", "E", "R", "I", "T", "A", "N", "C", "E">>
      [] s = "INSTANTIATION" ->
             <<"I", "N", "S", "T", "A", "N", "T", "I", "A", "T", "I", "O", "N">>
      [] s = "TYPE_IN_FUNCTION_PROTOTYPE" ->
             <<"T", "Y", "P", "E", "_", "I", "N", "_", "F", "U", "N", "C", "T", "I", "O", "N",
               "_", "P", "R", "O", "T", "O", "T", "Y", "P", "E">>
      [] s = "IVAR_TYPE" -> <<"I", "V", "A", "R", "_", "T", "Y", "P", "E">>
      [] s = "CVAR_TYPE" -> <<"C", "V", "A", "R", "_", "T", "Y", "P", "E">>

\* the characters json.dump writes as they are: the printable ASCII
\* characters, " " to "~", but for the quote and the backslash (the
\* backquote is one of them; no string here can hold it)
plain ==
    {" ", "!", "#", "$", "%", "&", "'", "(", ")", "*", "+", ",", "-", ".", "/",
     "0", "1", "2", "3", "4", "5", "6", "7", "8", "9", ":", ";", "<", "=", ">", "?", "@",
     "A", "B", "C", "D", "E", "F", "G", "H", "I", "J", "K", "L", "M", "N", "O", "P", "Q",
     "R", "S", "T", "U", "V", "W", "X", "Y", "Z", "[", "]", "^", "_",
     "a", "b", "c", "d", "e", "f", "g", "h", "i", "j", "k", "l", "m", "n", "o", "p", "q",
     "r", "s", "t", "u", "v", "w", "x", "y", "z", "{", "|", "}", "~"}

\* ord(c) of the other characters a name or a path of the model may hold:
\* backspace, tab, line feed, form feed, carriage return, DEL, and two
\* characters beyond ASCII (none beyond U+FFFF, which no string here can hold)
ord(c) ==
    CASE c = "" -> 8
      [] c = "\t" -> 9
      [] c = "\n" -> 10
      [] c = "\f" -> 12
      [] c = "\r" -> 13
      [] c = "" -> 127
      [] c = "é" -> 233
      [] c = "€" -> 8364

hexdigit(n) ==
    <<"0", "1", "2", "3", "4", "5", "6", "7", "8", "9", "a", "b", "c", "d", "e", "f">>[n + 1]

\* "\\u{0:04x}".format(n)
uXXXX(n) ==
    <<"\\", "u", hexdigit(n \div 4096), hexdigit((n \div 256) % 16),
      hexdigit((n \div 16) % 16), hexdigit(n % 16)>>

\* what the JSON encoder, ensure_ascii its default, writes for character c
escape_char(c) ==
    IF c \in plain THEN <<c>>
    ELSE IF c \in {"\"", "\\"} THEN <<"\\", c>>
    ELSE CASE ord(c) = 8 -> <<"\\", "b">>
           [] ord(c) = 9 -> <<"\\", "t">>
           [] ord(c) = 10 -> <<"\\", "n">>
           [] ord(c) = 12 -> <<"\\", "f">>
           [] ord(c) = 13 -> <<"\\", "r">>
           [] OTHER -> uXXXX(ord(c))

\* the JSON encoder's escaping of a string, half by half
RECURSIVE escape(_)
escape(s) ==
    IF s = <<>> THEN <<>>
    ELSE IF Len(s) = 1 THEN escape_char(s[1])
    ELSE escape(SubSeq(s, 1, Len(s) \div 2)) \o escape(SubSeq(s, Len(s) \div 2 + 1, Len(s)))

quote(s) == <<"\"">> \o escape(s) \o <<"\"">>

\* JSONEncoder.iterencode(d): the chunks json.dump writes for dictionary d,
\* one write each: "{}" for the empty dictionary; else the brace, then for
\* each item a separator (but before the first), the key, the colon and the
\* value, then the closing brace
chunks(d) ==
    IF d = <<>> THEN <<<<"{", "}">>>>
    ELSE
    <<<<"{">>>>
    \o join([i \in DOMAIN d |->
                (IF i = 1 THEN <<>> ELSE <<<<",", " ">>>>)
                \o <<quote(Chars(d[i][1])), <<":", " ">>, quote(d[i][2])>>],
            <<>>)
    \o <<<<"}">>>>

\* json.dump(d, _output): the text of dictionary d
dumps(d) == join(chunks(d), <<>>)

\* j | {k: v}: the value of an existing key is replaced in place, a new key
\* is added at the end
merge(j, k, v) ==
    IF \E i \in DOMAIN j : j[i][1] = k
    THEN [i \in DOMAIN j |-> IF j[i][1] = k THEN <<k, v>> ELSE j[i]]
    ELSE Append(j, <<k, v>>)

\* the writes _record makes for dictionary j from file f: the chunks of the
\* JSON text, then "\n"
writes_of(f, j) == chunks(merge(j, "file", f.path)) \o <<<<"\n">>>>

\* what _record writes for dictionary j from file f: the JSON text, then "\n"
line(f, j) == join(writes_of(f, j), <<>>)

(***************************************************************************)
(* The output.  sys.stdout is a stream: streams["stdout"] is the text it   *)
(* was handed, in order.  streams[d] for a file d is the text the file     *)
(* holds on disk.  A file opened by enable() is written through the handle *)
(* open() returns, a text layer over a buffered writer over the file:      *)
(*   h.pending  the text layer's pending text, passed on in one piece once *)
(*              it reaches CHUNK_SIZE, or before a write that would take   *)
(*              it beyond;                                                 *)
(*   h.buffer   the buffered writer's buffer, of the file system's block   *)
(*              size: a piece that fits is kept, a piece that does not     *)
(*              sends the buffer to the file and follows it there if it is *)
(*              larger than the buffer, else takes its place;              *)
(*   h.written  what the handle has written to the file; the handle's file *)
(*              offset is its length, and the next piece lands there,      *)
(*              whatever the file holds by then.                           *)
(* All text is ASCII (json.dump escapes the rest), a character is a byte.  *)
(* A handle that enable() rebinds is finalised, which flushes both layers, *)
(* at once when the interpreter counts references, and otherwise whenever  *)
(* its collector runs, if at all.                                          *)
(***************************************************************************)
\* TextIOWrapper's chunk size
CHUNK_SIZE == 8192

\* st_blksize of the file systems the output may be on
BlockSizes == {4096, 8192}

\* the byte a file shows where nothing was written, below a later write
NUL == "\\0"

\* the handle open(output_path, "w") returns, or sys.stdout
handle(output_path) ==
    [dest |-> output_path, pending |-> <<>>, buffer |-> <<>>, written |-> <<>>]

\* the file that holds disk, after text t is written at offset p: a write
\* beyond its end leaves a hole before t, and no text leaves it as it is
patch(disk, p, t) ==
    IF t = <<>> THEN disk
    ELSE
    LET padded == IF p > Len(disk)
                  THEN disk \o [i \in 1 .. (p - Len(disk)) |-> NUL]
                  ELSE disk
    IN  SubSeq(padded, 1, p) \o t \o SubSeq(padded, p + Len(t) + 1, Len(padded))

\* FileIO.write(b) by the handle fs.h on the file that holds fs.disk
raw_write(fs, b) ==
    [h |-> [fs.h EXCEPT !.written = @ \o b],
     disk |-> patch(fs.disk, Len(fs.h.written), b)]

\* BufferedWriter.write(b)
buffered_write(fs, b) ==
    IF Len(fs.h.buffer) + Len(b) <= blksize
    THEN [fs EXCEPT !.h.buffer = @ \o b]
    ELSE LET emptied == raw_write([fs EXCEPT !.h.buffer = <<>>], fs.h.buffer)
         IN  IF Len(b) > blksize
             THEN raw_write(emptied, b)
             ELSE [emptied EXCEPT !.h.buffer = b]

\* TextIOWrapper's flush of its pending text to the buffered writer
writeflush(fs) ==
    IF fs.h.pending = <<>> THEN fs
    ELSE buffered_write([fs EXCEPT !.h.pending = <<>>], fs.h.pending)

\* TextIOWrapper.write(t)
text_write(fs, t) ==
    LET room == IF fs.h.pending # <<>> /\ Len(fs.h.pending) + Len(t) > CHUNK_SIZE
                THEN writeflush(fs)
                ELSE fs
        added == [room EXCEPT !.h.pending = @ \o t]
    IN  IF Len(added.h.pending) >= CHUNK_SIZE THEN writeflush(added) ELSE added

\* the handle's close(), which its finalisation calls: both layers flushed
close(fs) ==
    LET passed == writeflush(fs)
    IN  raw_write([passed EXCEPT !.h.buffer = <<>>], passed.h.buffer)

\* the finalisation of handle h: what it holds reaches its file
flushed(st, h) == [st EXCEPT ![h.dest] = close([h |-> h, disk |-> @]).disk]

\* the handle _output is bound to, if it is a file handle that holds text
unflushed ==
    IF /\ _output # None
       /\ _output[1].dest # "stdout"
       /\ _output[1].pending \o _output[1].buffer # <<>>
    THEN {_output[1]} ELSE {}

\* The output while a hook call writes: c.out is what _output is bound to,
\* c.st the text on each destination, c.g the bag of dropped handles.
\* write(t) on the output
one_write(c, t) ==
    IF c.out[1].dest = "stdout"
    THEN [c EXCEPT !.st["stdout"] = @ \o t]
    ELSE LET fs == text_write([h |-> c.out[1], disk |-> c.st[c.out[1].dest]], t)
         IN  [c EXCEPT !.out = <<fs.h>>, !.st[c.out[1].dest] = fs.disk]

\* the collector finalises the dropped handle h
collected(c, h) == [c EXCEPT !.st = flushed(@, h), !.g = @ (-) SetToBag({h})]

\* what a run of the collector may leave: any of the dropped handles
\* finalised, in any order
RECURSIVE collect(_)
collect(c) == {c} \cup UNION { collect(collected(c, h)) : h \in BagToSet(c.g) }

\* what the writes ts, one after the other, may leave of the outputs cs: an
\* interpreter that does not count references may run its collector between
\* two writes (the first half of the writes, then, on what that and the
\* collector left, the second)
RECURSIVE writes(_, _)
writes(cs, ts) ==
    IF ts = <<>> THEN cs
    ELSE IF Len(ts) = 1 THEN { one_write(c, ts[1]) : c \in cs }
    ELSE CHOOSE last \in
             { writes(UNION { collect(c) : c \in first }, SubSeq(ts, Len(ts) \div 2 + 1, Len(ts))) :
                   first \in {writes(cs, SubSeq(ts, 1, Len(ts) \div 2))} } : TRUE

\* the writes ts on _output
write(ts) ==
    \E c \in writes({[out |-> _output, st |-> streams, g |-> garbage]}, ts) :
        /\ _output' = c.out
        /\ streams' = c.st
        /\ garbage' = c.g

(***************************************************************************)
(* The recorder.  Each handler constrains the recorder's own state; the    *)
(* host's script position is constrained by the host actions below.        *)
(***************************************************************************)
\* _record with a mutation: the line replaces what the output was handed
_record_overwrite(f, j) ==
    IF _output # None /\ _path_filter(Path(f.path))
    THEN IF _output[1].dest = "stdout"
         THEN streams' = [streams EXCEPT !["stdout"] = line(f, j)]
              /\ UNCHANGED <<_output, garbage>>
         ELSE /\ _output' = <<[handle(_output[1].dest) EXCEPT !.pending = line(f, j)]>>
              /\ UNCHANGED <<streams, garbage>>
    ELSE UNCHANGED <<_output, streams, garbage>>

\* _record with a mutation: an output that was never opened is taken to be
\* the standard output
_record_always(f, j) ==
    IF _output = None
    THEN streams' = [streams EXCEPT !["stdout"] = @ \o line(f, j)]
         /\ UNCHANGED <<_output, garbage>>
    ELSE IF _path_filter(Path(f.path))
    THEN write(writes_of(f, j))
    ELSE UNCHANGED <<_output, streams, garbage>>

\* _record with a mutation: no path filter on the emitting file
_record_unfiltered(f, j) ==
    IF _output # None
    THEN write(writes_of(f, j))
    ELSE UNCHANGED <<_output, streams, garbage>>

_record(f, j) ==
    IF _output # None /\ _path_filter(Path(f.path))
    THEN write(writes_of(f, j))
    ELSE UNCHANGED <<_output, streams, garbage>>

enable(output_path, paths) ==
    /\ _output' = <<handle(output_path)>>
    /\ opens' = IF output_path = "stdout" THEN opens
                ELSE [opens EXCEPT ![output_path] = IF @ = 0 THEN 1 ELSE 2]
    /\ LET opened == IF output_path = "stdout" THEN streams
                     ELSE [streams EXCEPT ![output_path] = <<>>]
       IN  IF unflushed = {}
           THEN streams' = opened /\ UNCHANGED garbage
           ELSE IF refcounted
           THEN streams' = flushed(opened, _output[1]) /\ UNCHANGED garbage
           ELSE streams' = opened /\ garbage' = garbage (+) SetToBag(unflushed)
    /\ _filter_paths' = [i \in DOMAIN paths |-> resolve(Path(paths[i]))]
    /\ UNCHANGED <<_module_map, refcounted, blksize, running>>

\* record_module with a mutation: registers the module and emits no event
record_module_silent(f) ==
    /\ _module_map' = (f._fullname :> Path(f.path)) @@ _module_map
    /\ UNCHANGED <<_output, _filter_paths, streams, garbage, refcounted, blksize, opens, running>>

\* record_module with a mutation: the first registration of a name is kept
record_module_first(f) ==
    /\ _module_map' = _module_map @@ (f._fullname :> Path(f.path))
    /\ _record(f, <<<<"type", Chars("module")>>, <<"module", f._fullname>>>>)
    /\ UNCHANGED <<_filter_paths, refcounted, blksize, opens, running>>

record_module(f) ==
    /\ _module_map' = (f._fullname :> Path(f.path)) @@ _module_map
    /\ _record(f, <<<<"type", Chars("module")>>, <<"module", f._fullname>>>>)
    /\ UNCHANGED <<_filter_paths, refcounted, blksize, opens, running>>

record_import(f, importer, importee) ==
    /\ _record(f, <<<<"type", Chars("import")>>, <<"importer", importer>>,
                    <<"importee", importee>>>>)
    /\ UNCHANGED <<_filter_paths, _module_map, refcounted, blksize, opens, running>>

record_invalidate(f, module) ==
    /\ _record(f, <<<<"type", Chars("invalidate")>>, <<"module", module>>>>)
    /\ UNCHANGED <<_filter_paths, _module_map, refcounted, blksize, opens, running>>

record_class_def(f, fullname) ==
    /\ _record(f, <<<<"type", Chars("class_def")>>, <<"fullname", fullname>>>>)
    /\ UNCHANGED <<_filter_paths, _module_map, refcounted, blksize, opens, running>>

record_class_ref(f, src, dst, kind) ==
    /\ LET dst_module == rsplit1_0(dst)
       IN  IF dst_module \in DOMAIN _module_map /\ _path_filter(_module_map[dst_module])
           THEN _record(f, <<<<"type", Chars("class_ref")>>, <<"src", src>>, <<"dst", dst>>,
                             <<"kind", Chars(kind)>>>>)
           ELSE UNCHANGED <<_output, streams, garbage>>
    /\ UNCHANGED <<_filter_paths, _module_map, refcounted, blksize, opens, running>>

record_function_def(f, fullname) ==
    /\ _record(f, <<<<"type", Chars("function_def")>>, <<"fullname", fullname>>>>)
    /\ UNCHANGED <<_filter_paths, _module_map, refcounted, blksize, opens, running>>

\* record_function_call with a mutation: no path filter on the callee's module
record_function_call_any_registered(f, caller, callee) ==
    /\ LET callee_module == rsplit1_0(callee)
       IN  IF callee_module \in DOMAIN _module_map
           THEN _record(f, <<<<"type", Chars("call")>>, <<"caller", caller>>,
                             <<"callee", callee>>>>)
           ELSE UNCHANGED <<_output, streams, garbage>>
    /\ UNCHANGED <<_filter_paths, _module_map, refcounted, blksize, opens, running>>

record_function_call(f, caller, callee) ==
    /\ LET callee_module == rsplit1_0(callee)
       IN  IF callee_module \in DOMAIN _module_map /\ _path_filter(_module_map[callee_module])
           THEN _record(f, <<<<"type", Chars("call")>>, <<"caller", caller>>,
                             <<"callee", callee>>>>)
           ELSE UNCHANGED <<_output, streams, garbage>>
    /\ UNCHANGED <<_filter_paths, _module_map, refcounted, blksize, opens, running>>

(***************************************************************************)
(* The interpreter.                                                        *)
(***************************************************************************)
\* the process exits: a reference-counting interpreter finalises the handle
\* _output is bound to as it clears the module; another one leaves it to
\* its collector
exit ==
    /\ running
    /\ running' = FALSE
    /\ IF unflushed = {}
       THEN UNCHANGED <<streams, garbage>>
       ELSE IF refcounted
       THEN streams' = flushed(streams, _output[1]) /\ UNCHANGED garbage
       ELSE garbage' = garbage (+) SetToBag(unflushed) /\ UNCHANGED streams
    /\ UNCHANGED <<_output, _filter_paths, _module_map, refcounted, blksize, opens, script, pc>>

\* the collector finalises a handle that enable() or the exit dropped
finalise(h) ==
    /\ BagIn(h, garbage)
    /\ streams' = flushed(streams, h)
    /\ garbage' = garbage (-) SetToBag({h})
    /\ UNCHANGED <<_output, _filter_paths, _module_map, refcounted, blksize, opens, running,
                   script, pc>>

(***************************************************************************)
(* Inputs of the host pipeline.                                            *)
(***************************************************************************)
Proj == <<"/", "p", "r", "o", "j">>                             \* "/proj"
ModA == <<"p", "r", "o", "j", ".", "a">>                        \* "proj.a"
ModB == <<"p", "r", "o", "j", ".", "b">>                        \* "proj.b"
ModP == <<"p", "r", "o", "j">>                                  \* "proj"
FuncF == ModA \o <<".", "f">>                                   \* "proj.a.f"
FuncG == ModA \o <<".", "g">>                                   \* "proj.a.g"
ClassC == ModA \o <<".", "C">>                                  \* "proj.a.C"
MethM == ClassC \o <<".", "m">>                                 \* "proj.a.C.m"
ExtH == <<"e", "x", "t", ".", "l", "i", "b", ".", "h">>         \* "ext.lib.h"

\* MypyFile objects: the fields the recorder reads
FileA == [_fullname |-> ModA, path |-> Proj \o <<"/", "a", ".", "p", "y">>]
FileB == [_fullname |-> ModB, path |-> Proj \o <<"/", "b", ".", "p", "y">>]
\* proj.a found in a sibling directory whose name extends "proj": "/projx/a.py"
FileA2 == [_fullname |-> ModA, path |-> Proj \o <<"x", "/", "a", ".", "p", "y">>]
\* proj.b reached through a "..": "/projx/../proj/b.py"
FileBdd == [_fullname |-> ModB,
            path |-> Proj \o <<"x", "/", ".", ".">> \o Proj \o <<"/", "b", ".", "p", "y">>]
\* the package itself: "/proj/__init__.py"
FileP == [_fullname |-> ModP, path |-> Proj \o <<"/", "_", "_", "i", "n", "i", "t", "_", "_", ".", "p", "y">>]

Dests == {"stdout", "graph.jsonl"}
\* no root; "/proj"; "/projx/../proj" and "/projx/.." (the root directory's child and "/")
ProjDd == Proj \o <<"x", "/", ".", ".">> \o Proj
RootLists == {<<>>, <<Proj>>, <<ProjDd>>}
SeenFiles == {FileA, FileA2, FileBdd}
Emitters == {FileA, FileA2}
Kinds == {"INHERITANCE", "INSTANTIATION"}
Callees == {FuncF, MethM, ExtH}
ClassDsts == {ClassC, ExtH}
Invalidated == {ModA, ModB}

\* a module whose name and path are not ASCII: "proj.é" at "/proj/é.py"
FileU == [_fullname |-> ModP \o <<".", "é">>, path |-> Proj \o <<"/", "é", ".", "p", "y">>]

\* "proj.a.C" as a module of its own: "/proj/a/C.py"
FileAC == [_fullname |-> ClassC, path |-> Proj \o <<"/", "a", "/", "C", ".", "p", "y">>]
AllKinds == {"INHERITANCE", "INSTANTIATION", "TYPE_IN_FUNCTION_PROTOTYPE", "IVAR_TYPE", "CVAR_TYPE"}

\* the calls a script is made of
EnableCall(o, ps) == [op |-> "enable", output_path |-> o, paths |-> ps]
ModuleCall(f) == [op |-> "record_module", f |-> f]
FunctionDefCall(f, n) == [op |-> "record_function_def", f |-> f, fullname |-> n]
FunctionCallCall(f, caller, callee) ==
    [op |-> "record_function_call", f |-> f, caller |-> caller, callee |-> callee]
ClassRefCall(f, src, dst, kind) ==
    [op |-> "record_class_ref", f |-> f, src |-> src, dst |-> dst, kind |-> kind]

\* the references a scenario script ends with
RefCalls ==
    { FunctionCallCall(f, FuncG, c) : f \in Emitters, c \in {FuncF, MethM, ExtH, ModP} }
    \cup { ClassRefCall(f, FuncG, d, k) : f \in Emitters, d \in {ClassC, ModP}, k \in AllKinds }

\* activation, two modules seen, a function definition, a reference
ScenarioScripts ==
    { <<EnableCall(o, ps), ModuleCall(f1), ModuleCall(f2), FunctionDefCall(f3, FuncF), r>> :
        o \in Dests, ps \in RootLists, f1 \in {FileA, FileA2, FileP},
        f2 \in {FileB, FileBdd, FileAC, FileU}, f3 \in Emitters, r \in RefCalls }

\* the scenario of the specification's section 8, on destination o
TheScenario(o) ==
    <<EnableCall(o, <<Proj>>), ModuleCall(FileA), ModuleCall(FileB),
      FunctionDefCall(FileA, FuncF), FunctionCallCall(FileA, FuncG, FuncF)>>

\* path strings of up to n components drawn from a, b, bc and ..
Comps == {<<"a">>, <<"b">>, <<"b", "c">>, <<".", ".">>}
CompSeqs(n) == UNION { [1 .. k -> Comps] : k \in 1 .. n }
ProbeStrs == { str(cs) : cs \in CompSeqs(MaxDepth) }
\* "/a/b", "/a/b/.." and "/a/../b"
RootStrs == { str(cs) : cs \in {<<<<"a">>, <<"b">>>>, <<<<"a">>, <<"b">>, <<".", ".">>>>,
                                <<<<"a">>, <<".", ".">>, <<"b">>>>} }
RootSeqs == UNION { [1 .. k -> RootStrs] : k \in 0 .. MaxRoots }

\* activation with some roots, then one event from a file at the probed path
FilterScripts ==
    { <<EnableCall("stdout", roots), FunctionDefCall([_fullname |-> ModA, path |-> p], FuncF)>> :
        roots \in RootSeqs, p \in ProbeStrs }

(***************************************************************************)
(* The host pipeline calling freely: any hook, in any order, and enable()  *)
(* at any moment (the code does not guard a second activation).  pc counts *)
(* the hook calls made, so that a call that writes nothing is a step too.  *)
(***************************************************************************)
FreeEnable == running /\ script = <<>> /\ UNCHANGED <<script, pc>>
FreeCall == running /\ script = <<>> /\ pc < MaxCalls /\ pc' = pc + 1 /\ UNCHANGED script

Init ==
    /\ _output = None
    /\ _filter_paths = <<>>
    /\ _module_map = <<>>
    /\ streams = [d \in Dests |-> <<>>]
    /\ garbage = EmptyBag
    /\ refcounted \in BOOLEAN
    /\ blksize \in BlockSizes
    /\ opens = [d \in Dests \ {"stdout"} |-> 0]
    /\ running = TRUE
    /\ script = <<>>
    /\ pc = 0

Next ==
    \/ \E o \in Dests, ps \in RootLists : FreeEnable /\ enable(o, ps)
    \/ \E f \in SeenFiles : FreeCall /\ record_module(f)
    \/ \E f \in Emitters : FreeCall /\ record_import(f, f._fullname, ModB)
    \/ \E f \in Emitters, m \in Invalidated : FreeCall /\ record_invalidate(f, m)
    \/ \E f \in Emitters : FreeCall /\ record_class_def(f, ClassC)
    \/ \E f \in Emitters, d \in ClassDsts, k \in Kinds :
            FreeCall /\ record_class_ref(f, FuncG, d, k)
    \/ \E f \in Emitters : FreeCall /\ record_function_def(f, FuncF)
    \/ \E f \in Emitters, c \in Callees : FreeCall /\ record_function_call(f, FuncG, c)
    \/ exit
    \/ \E h \in BagToSet(garbage) : finalise(h)

Spec == Init /\ [][Next]_vars

(***************************************************************************)
(* The host pipeline running a script: the calls of the script, in order.  *)
(***************************************************************************)
ScriptInit ==
    /\ _output = None
    /\ _filter_paths = <<>>
    /\ _module_map = <<>>
    /\ streams = [d \in Dests |-> <<>>]
    /\ garbage = EmptyBag
    /\ refcounted \in BOOLEAN
    /\ blksize \in BlockSizes
    /\ opens = [d \in Dests \ {"stdout"} |-> 0]
    /\ running = TRUE
    /\ script \in ScenarioScripts \cup FilterScripts
    /\ pc = 0

Scripted(op) ==
    /\ running
    /\ pc < Len(script)
    /\ script[pc + 1].op = op
    /\ pc' = pc + 1
    /\ UNCHANGED script

ScriptNext ==
    LET c == script[pc + 1]
    IN  \/ Scripted("enable") /\ enable(c.output_path, c.paths)
        \/ Scripted("record_module") /\ record_module(c.f)
        \/ Scripted("record_function_def") /\ record_function_def(c.f, c.fullname)
        \/ Scripted("record_function_call") /\ record_function_call(c.f, c.caller, c.callee)
        \/ Scripted("record_class_ref") /\ record_class_ref(c.f, c.src, c.dst, c.kind)
        \/ pc = Len(script) /\ exit
        \/ \E h \in BagToSet(garbage) : finalise(h)

SpecScript == ScriptInit /\ [][ScriptNext]_vars

(***************************************************************************)
(* The host pipeline recording functions and imports whose names are short *)
(* or long: a long name fills the text layer's chunk by itself, so that a  *)
(* hook call passes text on to the buffered writer and to the file, and an *)
(* import of two long names does so at two of its writes.                  *)
(***************************************************************************)
\* a name whose JSON string is as long as a chunk, and a longer one
LongName == [i \in 1 .. CHUNK_SIZE - 2 |-> "x"]
LongerName == LongName \o FuncF
BufferNames == {FuncF, LongName}

BufferNext ==
    \/ \E o \in Dests : FreeEnable /\ enable(o, <<Proj>>)
    \/ \E n \in BufferNames : FreeCall /\ record_function_def(FileA, n)
    \/ \E n \in {FuncF, LongerName} : FreeCall /\ record_import(FileA, n, LongName)
    \/ exit
    \/ \E h \in BagToSet(garbage) : finalise(h)

SpecBuffer == Init /\ [][BufferNext]_vars

(***************************************************************************)
(* Vocabulary of the properties.  A line is read back as a consumer of the *)
(* output reads it.  A value is read as it was written, escapes and all;   *)
(* no name or path of the model holds a quote, so it ends at the next one. *)
(***************************************************************************)
\* the text handle h was handed: what it has written to its file, then what
\* its buffered writer holds, then what its text layer holds
HandleText(h) == h.written \o h.buffer \o h.pending

\* the text handed so far to the output _output is bound to
Sink ==
    IF _output = None THEN <<>>
    ELSE IF _output[1].dest = "stdout" THEN streams["stdout"]
    ELSE HandleText(_output[1])

IsPrefix(s, t) == Len(s) <= Len(t) /\ SubSeq(t, 1, Len(s)) = s

\* the step is one hook call
HookStep == pc' = pc + 1

\* the step handed exactly the text t to the open output, after what it was
\* handed before.  It dropped no handle; if the collector finalised none
\* either, nothing else was touched: a file changed only by what its handle
\* passed on to it in the step, at the offset the handle was at
Appended(t) ==
    /\ Sink' = Sink \o t
    /\ _output'[1].dest = _output[1].dest
    /\ _output[1].dest # "stdout" =>
           /\ streams'["stdout"] = streams["stdout"]
           /\ IsPrefix(_output[1].written, _output'[1].written)
    /\ garbage' \sqsubseteq garbage
    /\ garbage' = garbage =>
           /\ \A d \in Dests : d = _output[1].dest \/ streams'[d] = streams[d]
           /\ _output[1].dest # "stdout" =>
                  streams' = [streams EXCEPT ![_output[1].dest] =
                                 patch(@, Len(_output[1].written),
                                       SubSeq(_output'[1].written, Len(_output[1].written) + 1,
                                              Len(_output'[1].written)))]

\* the step wrote nothing
Silent == UNCHANGED <<_output, streams, garbage>>

\* text t holds p from index i on
match(t, i, p) == i + Len(p) - 1 <= Len(t) /\ SubSeq(t, i, i + Len(p) - 1) = p

\* the value of key k in the line t, <<>> when t has no such key
field(t, k) ==
    LET p == quote(Chars(k)) \o <<":", " ", "\"">>
        at == { i \in 1 .. Len(t) : match(t, i, p) }
    IN  IF at = {} THEN <<>>
        ELSE LET s == least(at) + Len(p)
                 qs == { j \in s .. Len(t) : t[j] = "\"" }
             IN  IF qs = {} THEN <<>> ELSE SubSeq(t, s, least(qs) - 1)

\* t is one whole line: one dictionary, then the only line terminator
IsLine(t) ==
    /\ Len(t) > 2 /\ t[1] = "{" /\ t[Len(t) - 1] = "}" /\ t[Len(t)] = "\n"
    /\ \A i \in 1 .. Len(t) - 1 : t[i] # "\n"

\* the lines of a text, each with its terminator
Lines(text) ==
    LET ends == { i \in 1 .. Len(text) : text[i] = "\n" }
        end(k) == CHOOSE i \in ends : Cardinality({ j \in ends : j <= i }) = k
    IN  [k \in 1 .. Cardinality(ends) |->
            SubSeq(text, IF k = 1 THEN 1 ELSE end(k - 1) + 1, end(k))]

\* every text there is: on a destination or handed to a handle
Texts ==
    { streams[d] : d \in Dests } \cup { HandleText(h) : h \in BagToSet(garbage) }
    \cup (IF _output = None THEN {} ELSE {HandleText(_output[1])})

\* some text holds a whole line of the given type
Holds(ty) ==
    \E text \in Texts : \E i \in DOMAIN Lines(text) :
        IsLine(Lines(text)[i]) /\ field(Lines(text)[i], "type") = Chars(ty)

\* the module of symbol name is registered and its file is under a filter root
DstInScope(name) ==
    /\ rsplit1_0(name) \in DOMAIN _module_map
    /\ _path_filter(_module_map[rsplit1_0(name)])

ClassRefLine(f, d, k) ==
    line(f, <<<<"type", Chars("class_ref")>>, <<"src", FuncG>>, <<"dst", d>>,
              <<"kind", Chars(k)>>>>)
CallLine(f, c) ==
    line(f, <<<<"type", Chars("call")>>, <<"caller", FuncG>>, <<"callee", c>>>>)
FunctionDefLine(f) ==
    line(f, <<<<"type", Chars("function_def")>>, <<"fullname", FuncF>>>>)

(***************************************************************************)
(* C1, as claimed: with recording enabled, every record_class_ref /        *)
(* record_function_call whose destination module is registered with a file *)
(* under a filter root appends exactly one line carrying the names passed  *)
(* in, whatever the emitting file, also one outside every filter root.     *)
(***************************************************************************)
C1_RefWrittenFromAnyFile ==
    [][\A f \in Emitters :
        /\ \A d \in ClassDsts, k \in Kinds :
              (_output # None /\ DstInScope(d) /\ HookStep /\ record_class_ref(f, FuncG, d, k))
                  => Appended(ClassRefLine(f, d, k))
        /\ \A c \in Callees :
              (_output # None /\ DstInScope(c) /\ HookStep /\ record_function_call(f, FuncG, c))
                  => Appended(CallLine(f, c))]_vars

(***************************************************************************)
(* C2: what a hook call hands to the output is nothing or one line, and a  *)
(* class_ref or call line names a symbol whose module was, before that     *)
(* call, in the module table with a file under a filter root; a reference  *)
(* made while the module is unregistered or out of scope writes nothing;   *)
(* and no other step hands a line to an output.  Since a call that         *)
(* registers a module hands over no line for an earlier reference, nothing *)
(* is replayed.                                                            *)
(***************************************************************************)
C2_RefsOnlyToRegisteredInScope ==
    [][/\ HookStep =>
              /\ IsPrefix(Sink, Sink')
              /\ LET t == SubSeq(Sink', Len(Sink) + 1, Len(Sink'))
                 IN  /\ t = <<>> \/ IsLine(t)
                     /\ field(t, "type") = Chars("class_ref") => DstInScope(field(t, "dst"))
                     /\ field(t, "type") = Chars("call") => DstInScope(field(t, "callee"))
                     /\ field(t, "type") = Chars("module")
                            => field(t, "module") \in DOMAIN _module_map'
       /\ ~HookStep =>
              /\ streams'["stdout"] = streams["stdout"]
              /\ _output' = _output \/ HandleText(_output'[1]) = <<>>
       /\ \A f \in Emitters :
              /\ \A c \in Callees :
                    (HookStep /\ ~DstInScope(c) /\ record_function_call(f, FuncG, c))
                        => Silent
              /\ \A dst \in ClassDsts, k \in Kinds :
                    (HookStep /\ ~DstInScope(dst) /\ record_class_ref(f, FuncG, dst, k))
                        => Silent]_vars

\* a module was registered and a call into it was written
C2_Witness == Holds("call") /\ pc >= 2

(***************************************************************************)
(* C3: while recording has never been enabled (_output is None: enable is  *)
(* the only writer of _output and never resets it), no destination holds   *)
(* any text and no handle waits to be flushed, whatever hooks were called. *)
(***************************************************************************)
C3_DisabledWritesNothing ==
    _output = None => garbage = EmptyBag /\ \A d \in Dests : streams[d] = <<>>

\* hooks were called, one of them record_module, with recording never enabled
C3_Witness == _output = None /\ pc >= 2 /\ DOMAIN _module_map # {}

C5_DefsScopedByEmittingFile ==
    [][\A f \in SeenFiles \cup Emitters :
        LET Decides(A, j) ==
                (HookStep /\ _output # None /\ A)
                    => IF \E i \in DOMAIN _filter_paths :
                              is_relative_to(resolve(Path(f.path)), _filter_paths[i])
                       THEN Appended(line(f, j))
                       ELSE Silent
        IN  /\ Decides(record_module(f),
                       <<<<"type", Chars("module")>>, <<"module", f._fullname>>>>)
            /\ Decides(record_import(f, f._fullname, ModB),
                       <<<<"type", Chars("import")>>, <<"importer", f._fullname>>,
                         <<"importee", ModB>>>>)
            /\ \A m \in Invalidated :
                   Decides(record_invalidate(f, m),
                           <<<<"type", Chars("invalidate")>>, <<"module", m>>>>)
            /\ Decides(record_class_def(f, ClassC),
                       <<<<"type", Chars("class_def")>>, <<"fullname", ClassC>>>>)
            /\ Decides(record_function_def(f, FuncF),
                       <<<<"type", Chars("function_def")>>, <<"fullname", FuncF>>>>)]_vars

\* an invalidate line for a module that was never registered, and a line of
\* another kind beside it
C5_Witness ==
    /\ \E text \in Texts : \E i \in DOMAIN Lines(text) :
           /\ IsLine(Lines(text)[i])
           /\ field(Lines(text)[i], "type") = Chars("invalidate")
           /\ field(Lines(text)[i], "module") \notin DOMAIN _module_map
    /\ Holds("class_def") \/ Holds("function_def") \/ Holds("import")

(***************************************************************************)
(* C8: record_module(f) maps f's module name to f's path and leaves every  *)
(* other entry as it was (the last registration of a name wins); no name   *)
(* leaves the table; and only a record_module call changes the table.      *)
(***************************************************************************)
C8_ModuleTableLastWriteWins ==
    [][/\ \A f \in SeenFiles :
              (HookStep /\ record_module(f))
                  => /\ DOMAIN _module_map' = DOMAIN _module_map \cup {f._fullname}
                     /\ _module_map'[f._fullname] = Path(f.path)
                     /\ \A m \in DOMAIN _module_map :
                            m # f._fullname => _module_map'[m] = _module_map[m]
       /\ DOMAIN _module_map \subseteq DOMAIN _module_map'
       /\ _module_map' # _module_map
              => \E f \in SeenFiles : HookStep /\ record_module(f)]_vars

\* proj.a was registered at /proj/a.py (its module line was written from
\* there) and now maps to /projx/a.py
C8_Witness ==
    /\ ModA \in DOMAIN _module_map
    /\ _module_map[ModA] = Path(FileA2.path)
    /\ \E text \in Texts : \E i \in DOMAIN Lines(text) :
           /\ field(Lines(text)[i], "type") = Chars("module")
           /\ field(Lines(text)[i], "file") = FileA.path

(***************************************************************************)
(* C9, as claimed: with recording enabled and no filter root, every event  *)
(* is accepted: a hook call whose other conditions hold writes its line.   *)
(***************************************************************************)
C9_NoRootsAcceptsAll ==
    [][\A f \in Emitters :
          (HookStep /\ _output # None /\ _filter_paths = <<>> /\ record_function_def(f, FuncF))
              => Appended(FunctionDefLine(f))]_vars

(***************************************************************************)
(* Properties of the scripted runs.                                        *)
(***************************************************************************)
\* q equals r or lies below it, component by component
Nested(r, q) == Len(r) <= Len(q) /\ \A k \in 1 .. Len(r) : q[k] = r[k]

FilterRun == pc = 2 /\ script \in FilterScripts
ProbeWritten == Sink # <<>>
ProbeRun(roots, p) == FilterRun /\ script[1].paths = roots /\ script[2].f.path = p

(***************************************************************************)
(* C6: after enable(roots), an event from a file at path p is accepted iff *)
(* p, canonicalised, equals or is nested component-wise under some         *)
(* canonicalised root.  A path that is one of the roots is accepted.  Root *)
(* /a/b rejects /a/bc and /a/bc/.. and accepts /a/b/bc; root /a/../b,      *)
(* which is /b, accepts /b/bc; root /a/b/.., which is /a, accepts /a/bc    *)
(* and rejects /b.                                                         *)
(***************************************************************************)
C6_FilterIsComponentwiseNesting ==
    FilterRun =>
        LET roots == script[1].paths
            p == script[2].f.path
            ab == str(<<<<"a">>, <<"b">>>>)
            abc == str(<<<<"a">>, <<"b", "c">>>>)
        IN  /\ ProbeWritten <=>
                  \E i \in DOMAIN roots : Nested(resolve(Path(roots[i])), resolve(Path(p)))
            /\ (\E i \in DOMAIN roots : roots[i] = p) => ProbeWritten
            /\ (roots = <<ab>> /\ p = abc) => ~ProbeWritten
            /\ (roots = <<ab>> /\ p = ab \o <<"/", "b", "c">>) => ProbeWritten
            /\ (roots = <<ab>> /\ p = abc \o <<"/", ".", ".">>) => ~ProbeWritten
            /\ (roots = <<<<"/", "a", "/", ".", ".", "/", "b">>>> /\ p = <<"/", "b", "/", "b", "c">>)
                   => ProbeWritten
            /\ (roots = <<ab \o <<"/", ".", ".">>>> /\ p = abc) => ProbeWritten
            /\ (roots = <<ab \o <<"/", ".", ".">>>> /\ p = <<"/", "b">>) => ~ProbeWritten

\* root /a/b, probe /a/bc: the sibling was filtered out
C6_Witness ==
    /\ ProbeRun(<<str(<<<<"a">>, <<"b">>>>)>>, str(<<<<"a">>, <<"b", "c">>>>))
    /\ ~ProbeWritten

\* the lines of the given type in a sequence of lines
OfType(ls, ty) == { i \in DOMAIN ls : field(ls[i], "type") = Chars(ty) }

ScenarioDone == pc = 5 /\ \E o \in Dests : script = TheScenario(o)

(***************************************************************************)
(* C7, as claimed: the scenario leaves exactly 3 lines, among them one     *)
(* function_def for proj.a.f and one call from proj.a.g to proj.a.f.       *)
(***************************************************************************)
C7_ScenarioLeavesThree ==
    ScenarioDone =>
        LET ls == Lines(Sink)
        IN  /\ Len(ls) = 3
            /\ \E i \in DOMAIN ls :
                   OfType(ls, "function_def") = {i} /\ field(ls[i], "fullname") = FuncF
            /\ \E i \in DOMAIN ls :
                   /\ OfType(ls, "call") = {i}
                   /\ field(ls[i], "caller") = FuncG
                   /\ field(ls[i], "callee") = FuncF

(***************************************************************************)
(* C7, amended: the scenario hands exactly 4 lines to the output: the      *)
(* module lines of proj.a and proj.b, one function_def for proj.a.f and    *)
(* one call from proj.a.g to proj.a.f, in the order of the calls.  The     *)
(* standard output holds them at once; a file holds nothing until its      *)
(* handle is finalised, at the exit or after it, and these 4 lines then.   *)
(***************************************************************************)
C7_ScenarioLeavesFour ==
    ScenarioDone =>
        LET o == script[1].output_path
            ls == Lines(Sink)
            late == o # "stdout" /\ (running \/ garbage # EmptyBag)
        IN  /\ Len(ls) = 4
            /\ Sink = ls[1] \o ls[2] \o ls[3] \o ls[4]
            /\ ls[1] = line(FileA, <<<<"type", Chars("module")>>, <<"module", ModA>>>>)
            /\ ls[2] = line(FileB, <<<<"type", Chars("module")>>, <<"module", ModB>>>>)
            /\ ls[3] = FunctionDefLine(FileA)
            /\ ls[4] = CallLine(FileA, FuncF)
            /\ streams[o] = IF late THEN <<>> ELSE Sink

\* the scenario has run to its end on a file, and the file holds its lines
C7_Witness ==
    /\ pc = 5 /\ script = TheScenario("graph.jsonl")
    /\ Len(Lines(streams["graph.jsonl"])) > 0

\* a dotted name without its last component; the whole name when it has one
WithoutLastComponent(name) ==
    LET cs == split(name, ".")
    IN  IF Len(cs) = 1 THEN name ELSE join(SubSeq(cs, 1, Len(cs) - 1), <<".">>)

RefRun == pc = 5 /\ script \in ScenarioScripts
RefDst == IF script[5].op = "record_function_call" THEN script[5].callee ELSE script[5].dst
RefWritten ==
    \E i \in DOMAIN Lines(Sink) :
        field(Lines(Sink)[i], "type") \in {Chars("call"), Chars("class_ref")}

(***************************************************************************)
(* C10: a reference is written iff the emitting file is in scope and the   *)
(* destination name without its last dot-separated component (the whole    *)
(* name when it has no dot) is a registered module whose file is in scope. *)
(* So a reference to proj.a.C.m is dropped when proj.a.C is not registered,*)
(* although proj.a is.                                                     *)
(***************************************************************************)
C10_ModuleIsNameWithoutLastComponent ==
    RefRun =>
        LET m == WithoutLastComponent(RefDst)
        IN  /\ RefWritten <=>
                  /\ _path_filter(Path(script[5].f.path))
                  /\ m \in DOMAIN _module_map
                  /\ _path_filter(_module_map[m])
            /\ (RefDst = MethM /\ ClassC \notin DOMAIN _module_map) => ~RefWritten

\* a call to proj.a.C.m from an in-scope file, with proj.a registered in
\* scope and proj.a.C not registered, was dropped
C10_Witness ==
    /\ RefRun
    /\ RefDst = MethM
    /\ _path_filter(Path(script[5].f.path))
    /\ ModA \in DOMAIN _module_map
    /\ _path_filter(_module_map[ModA])
    /\ ClassC \notin DOMAIN _module_map
    /\ ~RefWritten

====
